---------------------------- MODULE Spec2Model ----------------------------
(***************************************************************************)
(* State-machine model of the D365 F&O customer tool:                      *)
(*   - the WhatsApp webhook (src/src/whatsapp_webhook.py),                 *)
(*   - the OData client with pagination and retry (src/src/api_client.py), *)
(*   - the token provider (src/src/auth.py), the field extractor           *)
(*     (src/src/message_parser.py), the customer service                   *)
(*     (src/src/customer_service.py),                                      *)
(*   - the two command-line hosts (src/src/main.py, src/test_pipeline.py). *)
(*   - the transcriber (src/src/speech_to_text.py), called by the webhook  *)
(*     and, as its signature declares, directly.                           *)
(*   - the token provider is also called directly, several times on one    *)
(*     D365Authenticator.                                                  *)
(* In Spec one unit of work runs at a time: a webhook request, a CLI       *)
(* command or the local pipeline test.  In SpecConcurrent the server        *)
(* handles several webhook requests at once, their steps interleaved.      *)
(* External services answer nondeterministically.                          *)
(***************************************************************************)
EXTENDS Integers, Sequences, FiniteSets, TLC

VARIABLES
    pc,               \* position of the running unit of work
    host,             \* "none" | "webhook" | "cli" | "test_pipeline" | "speech_to_text"
                      \* | "auth"
    SKIP_VALIDATION,  \* app.config["SKIP_VALIDATION"], fixed by create_app
    req,              \* the inbound webhook request
    response,         \* the HTTP response webhook_incoming returned
    calls,            \* external calls made by the current unit of work, in order
    stages,           \* pipeline states passed by the current run, in order
    failed,           \* stage at which the current run failed, "" if none
    exc,              \* exception that left the unit of work (process exit), or NoExc
    audio_data,       \* webhook local: downloaded bytes
    transcription,    \* pipeline local: transcribed text
    fields,           \* pipeline local: CustomerFields
    token,            \* bearer token handed to D365ApiClient
    created,          \* record returned by create_customer
    printed,          \* what a command-line host printed
    http,             \* the latest _get_with_retry/_post_with_retry call: its request,
                      \* the attempt number, the outcomes of its attempts
    httpLog,          \* HTTP requests that call put on the wire, in order
    sleeps,           \* time.sleep durations that call took, in order
    pages,            \* the server's pages of the queried entity
    pager,            \* get_all_records locals: page, url, all_records, max_records;
                      \* fetched: the attempts each page fetched so far took
    args,             \* the command line of src/main.py
    records,          \* value returned by get_all_records
    auth,             \* the D365Authenticator in use: its application's token cache
                      \* and what the latest get_access_token saw and requested
    workers,          \* webhook requests served at the same time: the locals of
                      \* each one's webhook_incoming call
    speech,           \* what the speech service answered the latest transcribe_audio
    llm               \* what the chat completion gave the latest extract_customer_fields

vars == << pc, host, SKIP_VALIDATION, req, response, calls, stages, failed, exc,
           audio_data, transcription, fields, token, created, printed,
           http, httpLog, sleeps, pages, pager, args, records, speech, llm, auth, workers >>

---------------------------------------------------------------------------
(* Bounds of the model *)

MaxPages == 2       \* pages the server holds for one query
MaxPageLen == 2     \* records on one page
MaxArg == 3         \* largest --max given on the command line
MaxTokenCalls == 2  \* get_access_token calls made on one D365Authenticator

---------------------------------------------------------------------------
(* Values *)

None == "<None>"

Msg(text, detail) == [text |-> text, args |-> detail]

NoResponse == [status |-> 0, replies |-> << >>]

NoExc == [type |-> "", msg |-> Msg("", << >>)]

Raise(type, text, detail) == [type |-> type, msg |-> Msg(text, detail)]

\* Python classes derived from Exception; SystemExit and KeyboardInterrupt
\* derive from BaseException only.
ExceptionClasses ==
    { "ValueError", "TypeError", "AttributeError", "RuntimeError",
      "ConnectionError", "Timeout", "TranscriptionError", "ParseError" }

IsException(e) == e.type \in ExceptionClasses

NoFields == [customer_account |-> None, organization_name |-> None,
             customer_group_id |-> None]

NoPayload == [CustomerAccount |-> None, OrganizationName |-> None,
              CustomerGroupId |-> None, SalesCurrencyCode |-> None]

NoHttp == [method |-> "", url |-> [path |-> "", skiptoken |-> 0], params |-> {},
           payload |-> NoPayload, page |-> 0, attempt |-> 0, outcomes |-> << >>,
           state |-> "", raised |-> NoExc]

\* max_records: None (not given) or an integer
NoMax == [given |-> FALSE, value |-> 0]

NoPager == [page |-> 0, all_records |-> << >>, max_records |-> NoMax,
            url |-> [path |-> "", skiptoken |-> 0], params |-> {}, stop |-> FALSE,
            fetched |-> << >>]

NoArgs == [command |-> "", cross_company |-> FALSE, max |-> NoMax, dry_run |-> FALSE,
           account |-> None, name |-> None, group |-> None]

\* no answer of the speech service, no chat completion
NoSpeech == [raises |-> "", status |-> 0, RecognitionStatus |-> None,
             DisplayText |-> None]
NoLlm == [raises |-> "", kind |-> "", error |-> None, CustomerAccount |-> None,
          OrganizationName |-> None, CustomerGroupId |-> None]
\* what a call gave: a value, or a raised exception
Ret(v) == [exc |-> NoExc, value |-> v]

\* no answer of the identity provider: acquire_token_silent found nothing, or
\* acquire_token_for_client was not called
NoIdp == [access_token |-> None, error |-> None, error_description |-> None,
          raises |-> ""]

\* a D365Authenticator before its first get_access_token
NoAuth == [cache |-> NoIdp, silent |-> NoIdp, answer |-> NoIdp, requested |-> FALSE,
           called |-> FALSE]

Thrown(e) == [exc |-> e, value |-> None]

\* the body of an HTTP response as the client reads it: its JSON shape and, for
\* a JSON object that is a record of the entity, the record
Body(shape, record) == [shape |-> shape, record |-> record]

\* a body the client does not read
NoBody == Body("", NoPayload)

\* what an HTTP round trip gave: a response status, or a requests exception
HttpResp(status) == [status |-> status, raises |-> "", body |-> NoBody]

HttpFail(type) == [status |-> 0, raises |-> type, body |-> NoBody]

---------------------------------------------------------------------------
(* src/src/whatsapp_webhook.py: reply texts *)

USAGE_INSTRUCTIONS == Msg("Welcome to the D365 F&O Customer Creator!", << >>)

DOWNLOAD_FAILED ==
    Msg("Failed to download your voice message. Please try again.", << >>)

TRANSCRIPTION_FAILED ==
    Msg("Could not transcribe your voice message. Please try again with a clearer recording.", << >>)

D365_FAILED ==
    Msg("Failed to create customer in D365 F&O. Please try again later or contact an administrator.", << >>)

GENERIC_APOLOGY ==
    Msg("Something went wrong while processing your message. Please try again. If the problem persists, contact an administrator.", << >>)

\* the f-string of step 7: the three values are part of the text
Confirmation(account, name, group) ==
    Msg("Customer created successfully in D365 F&O!", << account, name, group >>)

_make_twiml_reply(message) == [status |-> 200, replies |-> << message >>]

Forbidden == [status |-> 403, replies |-> << >>]

---------------------------------------------------------------------------
(* The inbound request: headers, form, signature *)

Path == "/webhook"

Url(proto, h, path) == [proto |-> proto, host |-> h, path |-> path]

\* request.url as the WSGI server sees it
LocalUrl(r) == Url("http", IF r.Host = None THEN "localhost" ELSE r.Host, Path)

\* the URL the messaging provider posted to, and signs
PublicUrl == Url("https", "public.example", Path)

\* RequestValidator: an HMAC of the URL and the form fields under the auth token
Sign(key, url, form) == [key |-> key, url |-> url, form |-> form]

NoSignature == Sign("", Url("", "", ""), [NumMedia |-> None])

validate(url, form, signature) == signature = Sign("twilio_auth_token", url, form)

NumMediaValues == { None, "0", "1", "2", "-1", " 1 ", "abc", "" }

Forms == [NumMedia : NumMediaValues]

Signatures(r) ==
    { NoSignature,
      Sign("attacker", PublicUrl, r.form),
      Sign("twilio_auth_token", PublicUrl, r.form),
      Sign("twilio_auth_token", LocalUrl(r), r.form),
      Sign("twilio_auth_token", Url("https", "localhost", Path), r.form),
      Sign("twilio_auth_token", PublicUrl, [NumMedia |-> "2"]) }

Headers ==
    [ XForwardedProto : { None, "", "https" },
      XForwardedHost : { None, "", "public.example" },
      Host : { None, "localhost" },
      form : Forms ]

Requests ==
    UNION { { [ XForwardedProto |-> h.XForwardedProto,
                XForwardedHost |-> h.XForwardedHost,
                Host |-> h.Host, form |-> h.form, XTwilioSignature |-> s ] :
              s \in Signatures(h) } : h \in Headers }

NoRequest ==
    [ XForwardedProto |-> None, XForwardedHost |-> None, Host |-> None,
      form |-> [NumMedia |-> None], XTwilioSignature |-> NoSignature ]

\* Python truthiness of an optional string
Truthy(s) == s # None /\ s # ""

\* a reconstruction that prefers Host to X-Forwarded-Host
_build_original_url_host_first(r) ==
    LET forwarded_proto == r.XForwardedProto
        forwarded_host == IF Truthy(r.Host) THEN r.Host ELSE r.XForwardedHost
    IN  IF Truthy(forwarded_proto) /\ Truthy(forwarded_host)
        THEN Url(forwarded_proto, forwarded_host, Path)
        ELSE LocalUrl(r)

_build_original_url(r) ==
    LET forwarded_proto == r.XForwardedProto
        forwarded_host == IF Truthy(r.XForwardedHost) THEN r.XForwardedHost ELSE r.Host
    IN  IF Truthy(forwarded_proto) /\ Truthy(forwarded_host)
        THEN Url(forwarded_proto, forwarded_host, Path)
        ELSE LocalUrl(r)

\* validation against request.url, ignoring the forwarding headers
_validate_twilio_request_local(r) ==
    validate(LocalUrl(r), r.form, r.XTwilioSignature)

_validate_twilio_request(r) ==
    validate(_build_original_url(r), r.form, r.XTwilioSignature)

\* int(str): surrounding whitespace is accepted, anything else but an optionally
\* signed run of digits raises ValueError
int(s) ==
    CASE s = "0" -> [error |-> FALSE, value |-> 0]
      [] s = "1" -> [error |-> FALSE, value |-> 1]
      [] s = "2" -> [error |-> FALSE, value |-> 2]
      [] s = "-1" -> [error |-> FALSE, value |-> -1]
      [] s = " 1 " -> [error |-> FALSE, value |-> 1]
      [] OTHER -> [error |-> TRUE, value |-> 0]

---------------------------------------------------------------------------
(* src/src/whatsapp_webhook.py: the pipeline orchestrator *)

DownloadOutcomes ==
    { HttpResp(200), HttpResp(404), HttpResp(500),
      HttpFail("ConnectionError"), HttpFail("Timeout") }

\* requests.get either raises (requests exceptions derive from OSError, not from
\* RuntimeError) or gives a response; any status but 200 raises RuntimeError
_download_audio(o) ==
    IF o.raises # "" THEN Thrown(Raise(o.raises, "requests", << >>))
    ELSE IF o.status # 200
         THEN Thrown(Raise("RuntimeError", "Audio download failed with status", << o.status >>))
         ELSE Ret("audio-bytes")

\* a boundary that lets the exception through: no reply is built
webhook_incoming_reraise(e) == [response |-> NoResponse, exc |-> e]

\* the outer boundary of webhook_incoming: except Exception
webhook_incoming_except(e) ==
    IF IsException(e)
    THEN [response |-> _make_twiml_reply(GENERIC_APOLOGY), exc |-> NoExc]
    ELSE [response |-> NoResponse, exc |-> e]

\* How a step of a unit of work ends: where control goes, what was answered or
\* printed, which exception left the unit, which pipeline state was reached.
Go(next, reached) ==
    [pc |-> next, response |-> NoResponse, exc |-> NoExc, failed |-> "",
     reached |-> reached, print |-> << >>]

\* _process_voice_message returns a TwiML reply
ReplyWith(message, stage) ==
    [pc |-> "done", response |-> _make_twiml_reply(message), exc |-> NoExc,
     failed |-> stage, reached |-> "Replied", print |-> << >>]

\* an exception leaves _process_voice_message and meets the outer boundary
Uncaught(e, stage) ==
    LET b == webhook_incoming_except(e)
    IN  [pc |-> "done", response |-> b.response, exc |-> b.exc, failed |-> stage,
         reached |-> IF b.response = NoResponse THEN "" ELSE "Replied",
         print |-> << >>]

\* an exception leaves a command-line host: the process ends with it
Exit(e, stage) ==
    [pc |-> "done", response |-> NoResponse, exc |-> e, failed |-> stage,
     reached |-> "", print |-> << >>]

\* a command-line host prints and goes on (or returns)
Output(next, lines, stage, reached) ==
    [pc |-> next, response |-> NoResponse, exc |-> NoExc, failed |-> stage,
     reached |-> reached, print |-> lines]

Apply(k) ==
    /\ pc' = k.pc
    /\ response' = k.response
    /\ exc' = k.exc
    /\ failed' = k.failed
    /\ stages' = IF k.reached = "" THEN stages ELSE Append(stages, k.reached)
    /\ printed' = printed \o k.print

\* a unit of work begins: every local of the previous one is gone
Begin(h) ==
    /\ host' = h
    /\ calls' = << >>
    /\ audio_data' = None /\ transcription' = None /\ fields' = NoFields
    /\ token' = None /\ created' = NoPayload
    /\ http' = NoHttp /\ httpLog' = << >> /\ sleeps' = << >>
    /\ pages' = << >> /\ pager' = NoPager /\ records' = << >>
    /\ speech' = NoSpeech /\ llm' = NoLlm /\ auth' = NoAuth

\* a media check that lets NumMedia = 0 through
webhook_step2_negative(r) ==
    LET raw == IF r.form.NumMedia = None THEN "0" ELSE r.form.NumMedia
        num_media == int(raw)
    IN  IF num_media.error
        THEN Uncaught(Raise("ValueError", "invalid literal for int()", << >>), "")
        ELSE IF num_media.value < 0
             THEN ReplyWith(USAGE_INSTRUCTIONS, "")
             ELSE Go("download", "MediaChecked")

\* step 2 of _process_voice_message: the media check
webhook_step2(r) ==
    LET raw == IF r.form.NumMedia = None THEN "0" ELSE r.form.NumMedia
        num_media == int(raw)
    IN  IF num_media.error
        THEN Uncaught(Raise("ValueError", "invalid literal for int()", << >>), "")
        ELSE IF num_media.value < 1
             THEN ReplyWith(USAGE_INSTRUCTIONS, "")
             ELSE Go("download", "MediaChecked")

\* POST /webhook, up to the first external call
webhook_incoming ==
    /\ pc = "serving"
    /\ args' = NoArgs
    /\ \E r \in Requests :
        /\ req' = r
        /\ Begin("webhook")
        /\ IF ~SKIP_VALIDATION /\ ~_validate_twilio_request(r)
           THEN /\ pc' = "done"
                /\ response' = Forbidden
                /\ exc' = NoExc /\ failed' = "" /\ stages' = << >> /\ printed' = << >>
           ELSE LET k == webhook_step2(r)
                IN  /\ pc' = k.pc
                    /\ response' = k.response
                    /\ exc' = k.exc /\ failed' = k.failed
                    /\ stages' = << "Received", k.reached >>
                    /\ printed' = << >>
    /\ UNCHANGED << SKIP_VALIDATION, workers >>

\* step 3: download the audio; only RuntimeError is caught here
webhook_step3(r) ==
    IF r.exc = NoExc THEN Go("transcribe", "Downloaded")
    ELSE IF r.exc.type = "RuntimeError" THEN ReplyWith(DOWNLOAD_FAILED, "download")
    ELSE Uncaught(r.exc, "download")

DownloadStage ==
    /\ pc = "download" /\ host = "webhook"
    /\ \E o \in DownloadOutcomes :
        LET r == _download_audio(o)
        IN  /\ calls' = Append(calls, "download")
            /\ audio_data' = r.value
            /\ Apply(webhook_step3(r))
    /\ UNCHANGED << host, SKIP_VALIDATION, req, transcription, fields, token, created,
                    http, httpLog, sleeps, pages, pager, args, records, speech, llm, auth, workers >>

---------------------------------------------------------------------------
(* src/src/speech_to_text.py: the transcriber *)

\* str.strip()
strip(s) ==
    CASE s \in { " ", "  " } -> ""
      [] s = " AK005 " -> "AK005"
      [] s = " Create customer AK099, name Test Customer, group 80 " ->
             "Create customer AK099, name Test Customer, group 80"
      [] OTHER -> s

Speech(raises, status, RecognitionStatus, DisplayText) ==
    [raises |-> raises, status |-> status, RecognitionStatus |-> RecognitionStatus,
     DisplayText |-> DisplayText]

\* what the speech service may answer: a transport failure, an HTTP error, a
\* recognition status with or without text
SpeechOutcomes ==
    { Speech("RequestException", 0, None, None),
      Speech("", 401, None, None),
      Speech("", 500, None, None),
      Speech("", 200, "NoMatch", None),
      Speech("", 200, "InitialSilenceTimeout", ""),
      Speech("", 200, None, None),
      Speech("", 200, "Success", None),
      Speech("", 200, "Success", ""),
      Speech("", 200, "Success", "  "),
      Speech("", 200, "Success", " Create customer AK099, name Test Customer, group 80 "),
      Speech("", 200, "Success", "Account AK005, name Abdo Khoury, group eighty") }

TranscriptionError(text, detail) == Raise("TranscriptionError", text, detail)

\* a transcriber that returns whatever text the service gave
transcribe_audio_unchecked(o) ==
    IF o.raises # ""
    THEN Thrown(TranscriptionError("Speech transcription request failed", << o.raises >>))
    ELSE IF o.status # 200
    THEN Thrown(TranscriptionError("Speech API returned status", << o.status >>))
    ELSE LET status == IF o.RecognitionStatus = None THEN "" ELSE o.RecognitionStatus
             text == strip(IF o.DisplayText = None THEN "" ELSE o.DisplayText)
         IN  IF status # "Success"
             THEN Thrown(TranscriptionError("Speech recognition failed with status", << status >>))
             ELSE Ret(text)

\* the body of transcribe_audio(audio_data, speech_key, speech_region)
transcribe_audio(o) ==
    IF o.raises # ""
    THEN Thrown(TranscriptionError("Speech transcription request failed", << o.raises >>))
    ELSE IF o.status # 200
    THEN Thrown(TranscriptionError("Speech API returned status", << o.status >>))
    ELSE LET status == IF o.RecognitionStatus = None THEN "" ELSE o.RecognitionStatus
             text == strip(IF o.DisplayText = None THEN "" ELSE o.DisplayText)
         IN  IF status # "Success"
             THEN Thrown(TranscriptionError("Speech recognition failed with status", << status >>))
             ELSE IF text = ""
             THEN Thrown(TranscriptionError("Transcription returned empty text.", << >>))
             ELSE Ret(text)

\* the parameters transcribe_audio declares, none of them with a default
transcribe_audio_params == << "audio_data", "speech_key", "speech_region" >>

\* the arguments step 4 of the webhook passes
webhook_transcribe_args == << "audio_data", "cfg.openai_api_key" >>

\* a Python call binds its positional arguments before the body runs: a required
\* parameter left unbound raises TypeError and the body never starts
call_transcribe_audio(passed, o) ==
    IF Len(passed) # Len(transcribe_audio_params)
    THEN Thrown(Raise("TypeError", "transcribe_audio() missing required positional argument",
                      << transcribe_audio_params[Len(transcribe_audio_params)] >>))
    ELSE transcribe_audio(o)

\* step 4: transcribe; only TranscriptionError is caught here
webhook_step4(r) ==
    IF r.exc = NoExc THEN Go("extract", "Transcribed")
    ELSE IF r.exc.type = "TranscriptionError"
         THEN ReplyWith(TRANSCRIPTION_FAILED, "transcribe")
         ELSE Uncaught(r.exc, "transcribe")

\* the arguments a caller that follows the declared signature passes
direct_transcribe_args == << "audio_data", "speech_key", "speech_region" >>

\* a transcriber that sends the request again after a transport failure
transcribe_audio_next_resend(r) ==
    IF r.exc # NoExc /\ r.exc.msg.text = "Speech transcription request failed"
    THEN "transcribe" ELSE "done"

\* where control is after the one requests.post of transcribe_audio: every
\* branch behind it returns or raises, none leads back to the request
transcribe_audio_next(r) == "done"

\* a direct call of transcribe_audio ends: with the text, or with the exception
transcribe_audio_returns(r) ==
    [pc |-> transcribe_audio_next(r), response |-> NoResponse, exc |-> r.exc,
     failed |-> IF r.exc = NoExc THEN "" ELSE "transcribe",
     reached |-> IF r.exc = NoExc THEN "Transcribed" ELSE "", print |-> << >>]

\* transcribe_audio is called: by step 4 of the webhook with two arguments, or
\* directly with the three arguments it declares
TranscribeStage ==
    /\ pc = "transcribe"
    /\ \E o \in SpeechOutcomes :
        LET passed == IF host = "webhook" THEN webhook_transcribe_args
                      ELSE direct_transcribe_args
            r == call_transcribe_audio(passed, o)
            k == IF host = "webhook" THEN webhook_step4(r)
                 ELSE transcribe_audio_returns(r)
        IN  /\ calls' = IF r.exc.type = "TypeError" THEN calls ELSE Append(calls, "speech")
            /\ speech' = IF r.exc.type = "TypeError" THEN speech ELSE o
            /\ transcription' = r.value
            /\ Apply(k)
    /\ UNCHANGED << host, SKIP_VALIDATION, req, audio_data, fields, token, created,
                    http, httpLog, sleeps, pages, pager, args, records, llm, auth, workers >>

\* transcribe_audio(audio_data, speech_key, speech_region) is called directly
transcribe_audio_call ==
    /\ pc = "idle"
    /\ Begin("speech_to_text")
    /\ req' = NoRequest /\ args' = NoArgs
    /\ pc' = "transcribe"
    /\ response' = NoResponse /\ exc' = NoExc /\ failed' = "" /\ stages' = << >>
    /\ printed' = << >>
    /\ UNCHANGED << SKIP_VALIDATION, workers >>

---------------------------------------------------------------------------
(* src/src/auth.py: the token provider *)

IdpResult(access_token, error, error_description, raises) ==
    [access_token |-> access_token, error |-> error,
     error_description |-> error_description, raises |-> raises]

\* acquire_token_silent found nothing
NoResult == NoIdp

\* what acquire_token_for_client may give: a token, an error document with or
\* without its fields, or a transport exception of the HTTP layer
IdpOutcomes ==
    { IdpResult("token-1", None, None, ""),
      IdpResult(None, "invalid_client", "AADSTS7000215", ""),
      IdpResult(None, None, None, ""),
      IdpResult(None, None, None, "ConnectionError") }

\* a cache that holds the token of an earlier unit of work
TokenCache_kept == IdpResult("token-0", None, None, "")

\* D365Authenticator.__init__ builds a new ConfidentialClientApplication, whose
\* in-memory token cache starts empty
NewTokenCache == NoResult

\* acquire_token_silent(scope, account=None) on an application whose cache holds
\* `cache`: the cached token, unless there is none or it has expired
acquire_token_silent(cache, expired) ==
    IF expired THEN NoResult ELSE cache

token_request_always(silent) == TRUE

\* `if not result:` the client-credentials request is made
token_request_needed(silent) == silent = NoResult

\* get_access_token when acquire_token_silent gave `cache` and the identity
\* provider would answer a token request with `o`
get_access_token(cache, o) ==
    LET silent == cache
        result == IF token_request_needed(silent) THEN o ELSE silent
    IN  IF token_request_needed(silent) /\ o.raises # ""
        THEN Thrown(Raise(o.raises, "acquire_token_for_client", << >>))
        ELSE IF result.access_token # None
        THEN Ret(result.access_token)
        ELSE Thrown(Raise("SystemExit", "1", << >>))

\* the application's token cache after get_access_token: the library stores the
\* token a request obtained, and drops a token that has expired
token_cache_after(silent, requested, o) ==
    IF requested /\ o.raises = "" /\ o.access_token # None THEN o ELSE silent

\* the caller of a direct get_access_token: the token came back, or the
\* exception leaves
get_access_token_returns(r, n) ==
    IF r.exc = NoExc
    THEN Output(IF n < MaxTokenCalls THEN "auth" ELSE "done", << >>, "", "Authenticated")
    ELSE Exit(r.exc, "auth")

\* what get_access_token prints before sys.exit(1)
get_access_token_prints(cache, o) ==
    LET r == get_access_token(cache, o)
        result == IF token_request_needed(cache) THEN o ELSE cache
        error == IF result.error = None THEN "unknown" ELSE result.error
        error_desc == IF result.error_description = None
                      THEN "No description provided." ELSE result.error_description
    IN  IF r.exc.type = "SystemExit"
        THEN << Msg("Authentication failed:", << error >>), Msg("", << error_desc >>) >>
        ELSE << >>

---------------------------------------------------------------------------
(* src/src/api_client.py: the OData client *)

MAX_RETRIES == 3

RETRY_BACKOFF_BASE == 2

\* an OData URL: the entity path and the server's continuation token
ErpUrl(path, skiptoken) == [path |-> path, skiptoken |-> skiptoken]

\* no "@odata.nextLink" in the page
NoLink == ErpUrl("", 0)

ENTITY_NAME == "CustomersV2"

\* ",".join(CUSTOMER_FIELDS)
CUSTOMER_FIELDS == "CustomerAccount,CustomerGroupId,OrganizationName,NameAlias,SalesCurrencyCode,PaymentTerms,InvoiceAccount,PrimaryContactEmail,PrimaryContactPhone,AddressDescription"

\* the query parameters get_all_records builds for page 1
QueryParams(select_fields, cross_company) ==
    (IF select_fields # "" THEN { << "$select", select_fields >> } ELSE {})
    \cup (IF cross_company THEN { << "cross-company", "true" >> } ELSE {})

\* the statuses and transport failures the ERP may answer an attempt with
ErpOutcomes ==
    { HttpResp(200), HttpResp(201), HttpResp(400), HttpResp(401), HttpResp(409),
      HttpResp(429), HttpResp(503), HttpFail("ConnectionError"), HttpFail("Timeout") }

Transient(o) == o.raises # "" \/ o.status = 429 \/ o.status >= 500

SystemExit(text, detail) == Raise("SystemExit", text, detail)

\* one pass of a retry loop: the call returns, raises, or goes to the next
\* attempt; `sleep` is the time.sleep taken in this pass (0: none)
Step(kind, sleep, e) == [kind |-> kind, sleep |-> sleep, exc |-> e]

\* a loop that runs one pass too many
AfterSleep_one_more(attempt, wait) ==
    IF attempt = MAX_RETRIES + 1
    THEN Step("raise", wait, SystemExit("Failed after retries.", << MAX_RETRIES >>))
    ELSE Step("retry", wait, NoExc)

\* time.sleep(wait); continue: the next pass, or, falling out of
\* `for attempt in range(1, MAX_RETRIES + 1)`, the final raise
AfterSleep(attempt, wait) ==
    IF attempt = MAX_RETRIES
    THEN Step("raise", wait, SystemExit("Failed after retries.", << MAX_RETRIES >>))
    ELSE Step("retry", wait, NoExc)

\* one pass of the retry loop that _get_with_retry and _post_with_retry both
\* spell out, for attempt number `attempt`; `success` is the status on which the
\* call returns response.json()
retry_loop_pass(success, o, attempt) ==
    LET wait == RETRY_BACKOFF_BASE ^ attempt
    IN  IF o.raises = "ConnectionError"
        THEN IF attempt = MAX_RETRIES
             THEN Step("raise", 0, SystemExit("Failed to connect after attempts.", << MAX_RETRIES >>))
             ELSE Step("retry", wait, NoExc)
        ELSE IF o.raises = "Timeout"
        THEN IF attempt = MAX_RETRIES
             THEN Step("raise", 0, SystemExit("Request timed out after attempts.", << MAX_RETRIES >>))
             ELSE Step("retry", wait, NoExc)
        ELSE IF o.status = success THEN Step("return", 0, NoExc)
        ELSE IF o.status = 401
        THEN Step("raise", 0, SystemExit("Authentication error. Check credentials and token.", << >>))
        ELSE IF o.status = 429 THEN AfterSleep(attempt, wait)
        ELSE IF o.status >= 500 THEN AfterSleep(attempt, wait)
        ELSE Step("raise", 0, SystemExit("API request failed with status", << o.status >>))

\* a GET loop that takes 401 for a transient condition
_get_with_retry_retry401(o, attempt) ==
    IF o.status = 401 THEN AfterSleep(attempt, RETRY_BACKOFF_BASE ^ attempt)
    ELSE retry_loop_pass(200, o, attempt)

\* a GET loop whose backoff grows linearly with the attempt number
_get_with_retry_linear(o, attempt) ==
    LET st == retry_loop_pass(200, o, attempt)
    IN  [st EXCEPT !.sleep = IF @ > 0 THEN RETRY_BACKOFF_BASE * attempt ELSE 0]

\* one pass of the loop of _get_with_retry: 200 returns response.json()
_get_with_retry(o, attempt) == retry_loop_pass(200, o, attempt)

\* the shapes the body of an error response may have: no JSON at all (an HTML
\* page, an empty body), the OData error document
\* {"error": {"code", "message", "innererror": {"message"}}}, or a JSON object
\* whose "error" member is a text, as gateways in front of the service send
ErrorBodies ==
    { Body("not_json", NoPayload), Body("odata_error", NoPayload),
      Body("error_text", NoPayload) }

\* _post_with_retry, other client errors: the try around
\* error_body.get("error", {}).get("innererror", {}).get("message", "") passes
\* over ValueError only; .get on a text raises AttributeError
log_inner_message(body) ==
    IF body.shape = "error_text"
    THEN Raise("AttributeError", "'str' object has no attribute 'get'", << >>)
    ELSE NoExc

\* the response reaches the last branch of the loop body of _post_with_retry
OtherStatus(o) == o.raises = "" /\ o.status \notin { 201, 401, 429 } /\ o.status < 500

\* a POST loop that treats a transport failure like a 429: it sleeps also after
\* the final attempt and ends with the retries-exhausted error
_post_with_retry_transport_as_429(o, attempt) ==
    IF o.raises # "" THEN AfterSleep(attempt, RETRY_BACKOFF_BASE ^ attempt)
    ELSE retry_loop_pass(201, o, attempt)

\* a POST loop that backs off before returning a success that came on a retry
_post_with_retry_sleep_before_return(o, attempt) ==
    IF o.status = 201 /\ attempt > 1
    THEN Step("return", RETRY_BACKOFF_BASE ^ attempt, NoExc)
    ELSE retry_loop_pass(201, o, attempt)

\* a loop copied from _get_with_retry with its success status
_post_with_retry_expects_200(o, attempt) == retry_loop_pass(200, o, attempt)

\* one pass of the loop of _post_with_retry: 201 returns response.json(); an
\* exception of the error logging leaves the loop as it is
_post_with_retry(o, attempt) ==
    IF OtherStatus(o) /\ log_inner_message(o.body) # NoExc
    THEN Step("raise", 0, log_inner_message(o.body))
    ELSE retry_loop_pass(201, o, attempt)

\* a call of _get_with_retry or _post_with_retry: its request, the page of
\* get_all_records it fetches (0: none), the number of the attempt to make next
\* (or made last), the outcomes of its attempts so far, and whether it goes on
\* ("retry"), returned ("return") or raised ("raise")
HttpCall(method, url, params, payload, page) ==
    [method |-> method, url |-> url, params |-> params, payload |-> payload,
     page |-> page, attempt |-> 1, outcomes |-> << >>, state |-> "retry",
     raised |-> NoExc]

\* the request one attempt puts on the wire, with the session's bearer token
HttpRequest(c, bearer) ==
    [method |-> c.method, url |-> c.url, params |-> c.params, payload |-> c.payload,
     page |-> c.page, attempt |-> c.attempt, bearer |-> bearer]

\* ---- the server's side of a paginated query

RECURSIVE Flatten(_)
Flatten(ps) == IF ps = << >> THEN << >> ELSE Head(ps) \o Flatten(Tail(ps))

RECURSIVE PagesOf(_, _)
\* pages of the given sizes holding the records first, first + 1, ... in order
PagesOf(sizes, first) ==
    IF sizes = << >> THEN << >>
    ELSE << [i \in 1..Head(sizes) |-> first + i - 1] >>
         \o PagesOf(Tail(sizes), first + Head(sizes))

PageSizes == UNION { [1..n -> 0..MaxPageLen] : n \in 1..MaxPages }

\* the page the server returns for a URL: every page but the last carries a link
ServerPage(u) ==
    LET i == u.skiptoken + 1
    IN  [value |-> pages[i],
         nextLink |-> IF i < Len(pages) THEN ErpUrl(u.path, i) ELSE NoLink]

Take(seq, n) == SubSeq(seq, 1, IF n < Len(seq) THEN n ELSE Len(seq))

\* a loop body that keeps only the page just fetched
get_all_records_overwrite(g, data) ==
    LET all_records == data.value
        max_records == g.max_records
    IN  IF max_records.given /\ max_records.value # 0
           /\ Len(all_records) >= max_records.value
        THEN [g EXCEPT !.all_records = Take(all_records, max_records.value),
                       !.stop = TRUE]
        ELSE [g EXCEPT !.all_records = all_records,
                       !.url = data.nextLink,
                       !.page = g.page + 1,
                       !.stop = (data.nextLink = NoLink)]

\* a loop body that does not follow the continuation link
get_all_records_same_url(g, data) ==
    LET all_records == data.value
        max_records == g.max_records
    IN  IF max_records.given /\ max_records.value # 0
           /\ Len(all_records) >= max_records.value
        THEN [g EXCEPT !.all_records = Take(all_records, max_records.value),
                       !.stop = TRUE]
        ELSE [g EXCEPT !.all_records = all_records,
                       !.stop = (data.value = << >> /\ data.nextLink = NoLink)]

\* the body of the while loop of get_all_records after the page arrived
get_all_records(g, data) ==
    LET all_records == g.all_records \o data.value
        max_records == g.max_records
    IN  IF max_records.given /\ max_records.value # 0
           /\ Len(all_records) >= max_records.value
        THEN [g EXCEPT !.all_records = Take(all_records, max_records.value),
                       !.stop = TRUE]
        ELSE [g EXCEPT !.all_records = all_records,
                       !.url = data.nextLink,
                       !.page = g.page + 1,
                       !.stop = (data.nextLink = NoLink)]

\* the parameters attached to every page
page_params_always(params, page) == params

\* params if page == 1 else None
page_params(params, page) == IF page = 1 THEN params ELSE {}

\* get_all_records up to its first request
get_all_records_begin(select_fields, cross_company, max_records) ==
    [page |-> 1, all_records |-> << >>, max_records |-> max_records,
     url |-> ErpUrl("/data/" \o ENTITY_NAME, 0),
     params |-> QueryParams(select_fields, cross_company), stop |-> FALSE,
     fetched |-> << >>]

\* a loop that counts the attempts of each failure condition apart: transport
\* failures do not use up the attempts left for error statuses
Attempted_per_condition(c, o, st) ==
    [c EXCEPT !.attempt = IF st.kind = "retry" /\ o.raises = "" THEN @ + 1 ELSE @,
              !.outcomes = Append(@, o),
              !.state = st.kind,
              !.raised = st.exc]

\* one more attempt of call c was answered with o: the loop went on as st says;
\* `raised` is the exception that left the call, if one did
Attempted(c, o, st) ==
    [c EXCEPT !.attempt = IF st.kind = "retry" THEN @ + 1 ELSE @,
              !.outcomes = Append(@, o),
              !.state = st.kind,
              !.raised = st.exc]

---------------------------------------------------------------------------
(* src/src/customer_service.py *)

\* the payload create_customer posts; currency_code defaults to "USD"
create_customer(customer_account, organization_name, customer_group_id) ==
    HttpCall("POST", ErpUrl("/data/" \o ENTITY_NAME, 0), {},
             [CustomerAccount |-> customer_account,
              OrganizationName |-> organization_name,
              CustomerGroupId |-> customer_group_id,
              SalesCurrencyCode |-> "USD"], 0)

\* the record the ERP may answer a 201 with: the payload, or a record with a
\* field normalized, or with fields left out
CreatedBodies(payload) ==
    { payload,
      [payload EXCEPT !.CustomerAccount = "AK005-SRV"],
      [payload EXCEPT !.CustomerGroupId = None],
      NoPayload }

\* what the ERP may send with a response to a POST of payload
ResponseBodies(o, payload) ==
    IF o.status = 201 THEN { Body("object", b) : b \in CreatedBodies(payload) }
    ELSE IF OtherStatus(o) THEN ErrorBodies
    ELSE { NoBody }

\* a post_record that hands back what was submitted
post_record_echo(c, o) == c.payload

\* post_record returns what _post_with_retry returned: response.json()
post_record(c, o) == o.body.record

\* dict.get(key, default) on a record whose absent keys hold None
get(value, default) == IF value = None THEN default ELSE value

---------------------------------------------------------------------------
(* src/src/message_parser.py: the field extractor *)

JNull == "null"

Llm(raises, kind, error, account, name, group) ==
    [raises |-> raises, kind |-> kind, error |-> error, CustomerAccount |-> account,
     OrganizationName |-> name, CustomerGroupId |-> group]

\* what the chat completion may give: an API error, or a message content that
\* is no JSON, JSON of another shape than an object, or an object
LLMOutcomes ==
    { Llm(x, "", None, None, None, None) :
        x \in { "APIError", "APIConnectionError", "RateLimitError" } }
    \cup { Llm("", k, None, None, None, None) :
        k \in { "invalid_json", "array", "number", "no_content" } }
    \cup { Llm("", "object", e, a, n, g) :
        e \in { None, "Could not extract CustomerGroupId. Please state your customer account ID, organization name, and customer group number." },
        a \in { None, "", " AK005 ", "AK005", JNull },
        n \in { None, "  ", "Abdo Khoury" },
        g \in { None, "", "80" } }

\* str() of a JSON value: null becomes the text None
str(v) == IF v = JNull THEN "None" ELSE v

ParseError(text, detail) == Raise("ParseError", text, detail)

extract_customer_fields(o) ==
    IF o.raises # "" THEN Thrown(ParseError("Field extraction failed:", << o.raises >>))
    ELSE IF o.kind = "no_content"
    THEN Thrown(Raise("AttributeError", "'NoneType' object has no attribute 'strip'", << >>))
    ELSE IF o.kind = "invalid_json"
    THEN Thrown(ParseError("Could not parse the response. Please try again with a clearer message.", << >>))
    ELSE IF o.kind = "number"
    THEN Thrown(Raise("TypeError", "argument of type 'int' is not iterable", << >>))
    ELSE IF o.kind = "array"
    THEN Thrown(Raise("AttributeError", "'list' object has no attribute 'get'", << >>))
    ELSE IF o.error # None THEN Thrown(ParseError(o.error, << >>))
    ELSE LET account == strip(str(get(o.CustomerAccount, "")))
             name == strip(str(get(o.OrganizationName, "")))
             group == strip(str(get(o.CustomerGroupId, "")))
             missing == (IF account = "" THEN << "CustomerAccount" >> ELSE << >>)
                        \o (IF name = "" THEN << "OrganizationName" >> ELSE << >>)
                        \o (IF group = "" THEN << "CustomerGroupId" >> ELSE << >>)
         IN  IF missing # << >>
             THEN Thrown(ParseError("Could not extract: . Please state your customer account ID, organization name, and customer group number.", missing))
             ELSE Ret([customer_account |-> account, organization_name |-> name,
                       customer_group_id |-> group])

---------------------------------------------------------------------------
(* The steps of the hosts after each stage *)

\* webhook step 5: only ParseError is caught; the reply is str(exc)
webhook_step5(r) ==
    IF r.exc = NoExc THEN Go("auth", "Extracted")
    ELSE IF r.exc.type = "ParseError" THEN ReplyWith(r.exc.msg, "extract")
    ELSE Uncaught(r.exc, "extract")

\* a main that does not stop at stage 2
test_gpt_extraction_goes_on(r) ==
    IF r.exc = NoExc
    THEN Output("auth", << Msg("RESULT: PASS", << >>) >>, "", "Extracted")
    ELSE IF r.exc.type = "ParseError"
    THEN Output("auth", << Msg("RESULT: FAIL", << >>) >>, "extract", "")
    ELSE Exit(r.exc, "extract")

\* test_pipeline.py: test_gpt_extraction, and main stopping at stage 2
test_gpt_extraction(r) ==
    IF r.exc = NoExc
    THEN Output("auth", << Msg("RESULT: PASS", << >>) >>, "", "Extracted")
    ELSE IF r.exc.type = "ParseError"
    THEN Output("done", << Msg("RESULT: FAIL", << >>),
                           Msg("Pipeline stopped at Stage 2.", << >>) >>, "extract", "")
    ELSE Exit(r.exc, "extract")

webhook_step6_auth_except_exception(r) ==
    IF r.exc = NoExc THEN Go("post", "Authenticated")
    ELSE IF IsException(r.exc) THEN ReplyWith(D365_FAILED, "auth")
    ELSE Uncaught(r.exc, "auth")

\* webhook step 6, _get_d365_client: except (SystemExit, Exception)
webhook_step6_auth(r) ==
    IF r.exc = NoExc THEN Go("post", "Authenticated")
    ELSE IF r.exc.type = "SystemExit" \/ IsException(r.exc)
    THEN ReplyWith(D365_FAILED, "auth")
    ELSE Uncaught(r.exc, "auth")

\* test_pipeline.py: test_d365_auth (except Exception), and main stopping at stage 3
test_d365_auth(r) ==
    IF r.exc = NoExc
    THEN Output("post", << Msg("RESULT: PASS - Authenticated to D365", << >>) >>,
                "", "Authenticated")
    ELSE IF IsException(r.exc)
    THEN Output("done", << Msg("RESULT: FAIL", << >>),
                           Msg("Pipeline stopped at Stage 3.", << >>) >>, "auth", "")
    ELSE Exit(r.exc, "auth")

\* src/main.py: main, step 1
main_authenticate(r) ==
    IF r.exc = NoExc
    THEN Output("dispatch", << Msg("Authenticated successfully.", << >>) >>,
                "", "Authenticated")
    ELSE Exit(r.exc, "auth")

\* a confirmation that shows what was extracted, whatever the server returned
webhook_step7_extracted(rec, f) ==
    ReplyWith(Confirmation(f.customer_account, f.organization_name,
                           f.customer_group_id), "")

\* webhook step 7: the confirmation from the created record
webhook_step7(rec, f) ==
    ReplyWith(Confirmation(get(rec.CustomerAccount, f.customer_account),
                           get(rec.OrganizationName, f.organization_name),
                           get(rec.CustomerGroupId, f.customer_group_id)), "")

\* webhook step 6, create_customer: except (SystemExit, Exception), then step 7
webhook_step6_create(st, rec, f) ==
    IF st.kind = "return" THEN [webhook_step7(rec, f) EXCEPT !.reached = "Created"]
    ELSE IF st.exc.type = "SystemExit" \/ IsException(st.exc)
    THEN ReplyWith(D365_FAILED, "create")
    ELSE Uncaught(st.exc, "create")

\* test_pipeline.py: test_d365_create (except Exception)
test_d365_create(st, rec) ==
    IF st.kind = "return"
    THEN Output("done", << Msg("Created:", << get(rec.CustomerAccount, "?"),
                                              get(rec.OrganizationName, "?"),
                                              get(rec.CustomerGroupId, "?") >>),
                           Msg("RESULT: PASS", << >>) >>, "", "Created")
    ELSE IF IsException(st.exc)
    THEN Output("done", << Msg("RESULT: FAIL", << >>) >>, "create", "")
    ELSE Exit(st.exc, "create")

\* src/main.py: _handle_create
_handle_create(st, rec) ==
    IF st.kind = "return"
    THEN Output("done", << Msg("display_created_customer", << >>) >>, "", "Created")
    ELSE Exit(st.exc, "create")

\* src/main.py: _handle_retrieve after get_all_customers
_handle_retrieve(st) ==
    IF st.kind = "return"
    THEN Output("done", << Msg("display_customers", << >>) >>, "", "")
    ELSE Exit(st.exc, "retrieve")

---------------------------------------------------------------------------
(* Actions of the stages shared by the hosts *)

\* the field extractor is invoked: webhook step 5, test_pipeline stage 2
ExtractStage ==
    /\ pc = "extract"
    /\ \E o \in LLMOutcomes :
        LET r == extract_customer_fields(o)
            k == IF host = "webhook" THEN webhook_step5(r) ELSE test_gpt_extraction(r)
        IN  /\ calls' = Append(calls, "llm")
            /\ llm' = o
            /\ fields' = IF r.exc = NoExc THEN r.value ELSE fields
            /\ Apply(k)
    /\ UNCHANGED << host, SKIP_VALIDATION, req, audio_data, transcription, token, created,
                    http, httpLog, sleeps, pages, pager, args, records, speech, auth, workers >>

\* a new D365Authenticator is built and asked for a token: webhook step 6
\* (_get_d365_client), test_pipeline stage 3, main step 1
AuthStage ==
    /\ pc = "auth"
    /\ \E o \in IdpOutcomes, expired \in BOOLEAN :
        LET app == IF host = "auth" THEN auth.cache ELSE NewTokenCache
            silent == acquire_token_silent(app, expired)
            requested == token_request_needed(silent)
            r == get_access_token(silent, o)
            k == CASE host = "webhook" -> webhook_step6_auth(r)
                   [] host = "test_pipeline" -> test_d365_auth(r)
                   [] host = "auth" -> get_access_token_returns(r, Len(stages) + 1)
                   [] OTHER -> main_authenticate(r)
        IN  /\ calls' = IF requested THEN Append(calls, "idp") ELSE calls
            /\ token' = r.value
            /\ auth' = [cache |-> token_cache_after(silent, requested, o),
                        silent |-> silent,
                        answer |-> IF requested THEN o ELSE NoResult,
                        requested |-> requested, called |-> TRUE]
            /\ Apply([k EXCEPT !.print = get_access_token_prints(silent, o) \o @])
    /\ UNCHANGED << host, SKIP_VALIDATION, req, audio_data, transcription, fields, created,
                    http, httpLog, sleeps, pages, pager, args, records, speech, llm,
                    workers >>

\* get_access_token() is called on one D365Authenticator, MaxTokenCalls times
\* unless a call fails
get_access_token_call ==
    /\ pc = "idle"
    /\ Begin("auth")
    /\ req' = NoRequest /\ args' = NoArgs
    /\ pc' = "auth"
    /\ response' = NoResponse /\ exc' = NoExc /\ failed' = "" /\ stages' = << >>
    /\ printed' = << >>
    /\ UNCHANGED << SKIP_VALIDATION, workers >>

\* the create_customer call each host makes
create_customer_call ==
    CASE host = "webhook" ->
             create_customer(fields.customer_account, fields.organization_name,
                             fields.customer_group_id)
      [] host = "test_pipeline" ->
             create_customer("AKTEST", "Pipeline Test Customer", "80")
      [] OTHER -> create_customer(args.account, args.name, args.group)

\* one attempt of _post_with_retry (the first one enters create_customer), and
\* what the caller of create_customer does once the call has returned or raised
PostAttempt ==
    /\ pc = "post"
    /\ LET c == IF http.state = "retry" THEN http ELSE create_customer_call
       IN  \E answer \in ErpOutcomes :
           \E b \in ResponseBodies(answer, c.payload) :
            LET o == [answer EXCEPT !.body = b]
                st == _post_with_retry(o, c.attempt)
                body == post_record(c, o)
                k == CASE host = "webhook" -> webhook_step6_create(st, body, fields)
                       [] host = "test_pipeline" -> test_d365_create(st, body)
                       [] OTHER -> _handle_create(st, body)
                log == IF c.attempt = 1 THEN << >> ELSE httpLog
                slept == IF c.attempt = 1 THEN << >> ELSE sleeps
            IN  /\ httpLog' = Append(log, HttpRequest(c, token))
                /\ calls' = IF c.attempt = 1 THEN Append(calls, "erp") ELSE calls
                /\ sleeps' = IF st.sleep > 0 THEN Append(slept, st.sleep) ELSE slept
                /\ http' = Attempted(c, o, st)
                /\ created' = IF st.kind = "return" THEN body ELSE created
                /\ IF st.kind = "retry"
                   THEN UNCHANGED << pc, response, exc, failed, stages, printed >>
                   ELSE Apply(k)
    /\ UNCHANGED << host, SKIP_VALIDATION, req, audio_data, transcription, fields, token,
                    pages, pager, args, records, speech, llm, auth, workers >>

---------------------------------------------------------------------------
(* src/test_pipeline.py: main *)

test_pipeline_main ==
    /\ pc = "idle"
    /\ Begin("test_pipeline")
    /\ req' = NoRequest /\ args' = NoArgs
    /\ \E api_key_set \in BOOLEAN :
        IF api_key_set
        THEN /\ pc' = "extract"
             /\ exc' = NoExc
             /\ printed' = << Msg("STAGE 1: RESULT: SKIPPED", << >>) >>
        ELSE /\ pc' = "done"
             /\ exc' = SystemExit("1", << >>)
             /\ printed' = << Msg("OPENAI_API_KEY not set. Cannot test.", << >>) >>
    /\ response' = NoResponse /\ failed' = "" /\ stages' = << >>
    /\ UNCHANGED << SKIP_VALIDATION, workers >>

---------------------------------------------------------------------------
(* src/src/main.py: the command line *)

MaxValues == { NoMax } \cup { [given |-> TRUE, value |-> n] : n \in 0..MaxArg }

CommandLines ==
    { [NoArgs EXCEPT !.command = "retrieve", !.cross_company = c, !.max = m,
                     !.dry_run = d] :
        c \in BOOLEAN, m \in MaxValues, d \in BOOLEAN }
    \cup { [NoArgs EXCEPT !.command = "create", !.account = "AK001",
                          !.name = "Abdo Khoury", !.group = "80"] }

\* main up to the token request
main ==
    /\ pc = "idle"
    /\ \E a \in CommandLines :
        /\ Begin("cli")
        /\ args' = a
    /\ req' = NoRequest
    /\ pc' = "auth"
    /\ response' = NoResponse /\ exc' = NoExc /\ failed' = "" /\ stages' = << >>
    /\ printed' = << Msg("Authenticating...", << >>) >>
    /\ UNCHANGED << SKIP_VALIDATION, workers >>

\* main step 3: dispatch to _handle_retrieve or _handle_create, up to the first
\* request of the command; get_all_records sets up its loop
main_dispatch ==
    /\ pc = "dispatch" /\ host = "cli"
    /\ IF args.command = "retrieve"
       THEN IF args.dry_run
            THEN /\ Apply(Output("done", << Msg("Dry run complete", << >>) >>, "", ""))
                 /\ UNCHANGED << pages, pager >>
            ELSE /\ \E sizes \in PageSizes : pages' = PagesOf(sizes, 1)
                 /\ pager' = get_all_records_begin(CUSTOMER_FIELDS, args.cross_company,
                                                   args.max)
                 /\ Apply(Output("get", << Msg("Retrieving customers...", << >>) >>, "", ""))
       ELSE /\ Apply(Output("post", << Msg("Creating customer:", << >>) >>, "", ""))
            /\ UNCHANGED << pages, pager >>
    /\ UNCHANGED << host, SKIP_VALIDATION, req, calls, audio_data, transcription, fields,
                    token, created, http, httpLog, sleeps, args, records, speech, llm, auth, workers >>

\* a call that goes on counting where the call for the page before stopped: one
\* attempt budget for the whole retrieval
get_page_call_shared_budget(g) ==
    [HttpCall("GET", g.url, page_params(g.params, g.page), NoPayload, g.page)
        EXCEPT !.attempt = IF g.page > 1 THEN http.attempt ELSE 1]

\* a get_all_records that hands back what it has when a page fails
get_all_records_returns_partial(st, g) == g.all_records

\* `return all_records` at the end of the loop; when _get_with_retry raised, the
\* exception leaves get_all_records and the caller's variable is never bound
get_all_records_returns(st, g) ==
    IF st.kind = "return" THEN g.all_records ELSE records

\* the _get_with_retry call the loop of get_all_records makes for its next page
get_page_call(g) ==
    HttpCall("GET", g.url, page_params(g.params, g.page), NoPayload, g.page)

\* one attempt of _get_with_retry (the first one of a page enters the call); when
\* the page arrives, the rest of the loop body of get_all_records, and at the
\* end of the loop the return to _handle_retrieve
GetAttempt ==
    /\ pc = "get" /\ host = "cli"
    /\ LET c == IF http.state = "retry" THEN http ELSE get_page_call(pager)
       IN  \E o \in ErpOutcomes :
            LET st == _get_with_retry(o, c.attempt)
                g == IF st.kind = "return"
                     THEN [get_all_records(pager, ServerPage(c.url))
                            EXCEPT !.fetched = Append(@, c.attempt)]
                     ELSE pager
                log == IF c.attempt = 1 THEN << >> ELSE httpLog
                slept == IF c.attempt = 1 THEN << >> ELSE sleeps
            IN  /\ httpLog' = Append(log, HttpRequest(c, token))
                /\ calls' = IF calls[Len(calls)] # "erp" THEN Append(calls, "erp") ELSE calls
                /\ sleeps' = IF st.sleep > 0 THEN Append(slept, st.sleep) ELSE slept
                /\ http' = Attempted(c, o, st)
                /\ pager' = g
                /\ IF st.kind = "retry" \/ (st.kind = "return" /\ ~g.stop)
                   THEN UNCHANGED << pc, response, exc, failed, stages, printed, records >>
                   ELSE /\ records' = get_all_records_returns(st, g)
                        /\ Apply(_handle_retrieve(st))
    /\ UNCHANGED << host, SKIP_VALIDATION, req, audio_data, transcription, fields, token,
                    created, pages, args, speech, llm, auth, workers >>

\* create_app: the webhook server is configured and starts serving
create_app ==
    /\ pc = "idle"
    /\ \E skip_validation \in BOOLEAN : SKIP_VALIDATION' = skip_validation
    /\ pc' = "serving"
    /\ host' = "webhook"
    /\ UNCHANGED << req, response, calls, stages, failed, exc, audio_data, transcription,
                    fields, token, created, printed, http, httpLog, sleeps, pages, pager,
                    args, records, speech, llm, auth, workers >>

---------------------------------------------------------------------------
(* src/src/whatsapp_webhook.py served by several threads: each request runs
   webhook_incoming with locals of its own; app.config is read by all *)

\* the requests in progress
Workers == { "t1", "t2" }

\* a request not yet received: no local is bound
NoLocals ==
    [pc |-> "waiting", req |-> NoRequest, response |-> NoResponse, exc |-> NoExc,
     failed |-> "", stages |-> << >>, calls |-> << >>, audio_data |-> None,
     transcription |-> None, download |-> HttpResp(0)]

\* the requests the threads receive: text-only, voice or malformed, signed by
\* the sender's gateway or by somebody else
ConcurrentRequests ==
    { r \in Requests :
        /\ r.XForwardedProto = "https" /\ r.XForwardedHost = "public.example"
        /\ r.Host = "localhost"
        /\ r.form.NumMedia \in { None, "1", "abc" }
        /\ r.XTwilioSignature \in { Sign("attacker", PublicUrl, r.form),
                                    Sign("twilio_auth_token", PublicUrl, r.form) } }

\* one slot for the response, written by every thread
Locals_one_response(w, l) ==
    [v \in Workers |->
        IF v = w THEN l ELSE [workers[v] EXCEPT !.response = l.response]]

\* the frame of one webhook_incoming call: binding a local of request w leaves
\* the locals of the other requests as they are
Locals(w, l) == [workers EXCEPT ![w] = l]

\* the step of a request ends as k says
Continue(l, k) ==
    [l EXCEPT !.pc = k.pc, !.response = k.response, !.exc = k.exc,
              !.failed = k.failed,
              !.stages = IF k.reached = "" THEN @ ELSE Append(@, k.reached)]

\* webhook_incoming up to the first external call
webhook_incoming_first(r, skip) ==
    IF ~skip /\ ~_validate_twilio_request(r)
    THEN [pc |-> "done", response |-> Forbidden, exc |-> NoExc, failed |-> "",
          reached |-> "", print |-> << >>]
    ELSE webhook_step2(r)

\* a thread receives POST /webhook
thread_webhook_incoming ==
    /\ pc = "serving"
    /\ \E w \in Workers, r \in ConcurrentRequests :
        /\ workers[w].pc = "waiting"
        /\ workers' = Locals(w, Continue([NoLocals EXCEPT !.req = r],
                                         webhook_incoming_first(r, SKIP_VALIDATION)))
    /\ UNCHANGED << pc, host, SKIP_VALIDATION, req, response, calls, stages, failed, exc,
                    audio_data, transcription, fields, token, created, printed, http,
                    httpLog, sleeps, pages, pager, args, records, speech, llm, auth >>

\* a thread runs step 3 for its request
thread_DownloadStage ==
    /\ pc = "serving"
    /\ \E w \in Workers, o \in DownloadOutcomes :
        LET l == workers[w]
            r == _download_audio(o)
        IN  /\ l.pc = "download"
            /\ workers' = Locals(w, Continue([l EXCEPT !.calls = Append(@, "download"),
                                                       !.audio_data = r.value,
                                                       !.download = o],
                                             webhook_step3(r)))
    /\ UNCHANGED << pc, host, SKIP_VALIDATION, req, response, calls, stages, failed, exc,
                    audio_data, transcription, fields, token, created, printed, http,
                    httpLog, sleeps, pages, pager, args, records, speech, llm, auth >>

\* a thread runs step 4 for its request
thread_TranscribeStage ==
    /\ pc = "serving"
    /\ \E w \in Workers, o \in SpeechOutcomes :
        LET l == workers[w]
            r == call_transcribe_audio(webhook_transcribe_args, o)
        IN  /\ l.pc = "transcribe"
            /\ workers' = Locals(w, Continue([l EXCEPT
                                !.calls = IF r.exc.type = "TypeError" THEN @
                                          ELSE Append(@, "speech"),
                                !.transcription = r.value],
                                             webhook_step4(r)))
    /\ UNCHANGED << pc, host, SKIP_VALIDATION, req, response, calls, stages, failed, exc,
                    audio_data, transcription, fields, token, created, printed, http,
                    httpLog, sleeps, pages, pager, args, records, speech, llm, auth >>

---------------------------------------------------------------------------

Init ==
    /\ pc = "idle" /\ host = "none"
    /\ SKIP_VALIDATION = FALSE
    /\ req = NoRequest /\ response = NoResponse
    /\ calls = << >> /\ stages = << >> /\ failed = "" /\ exc = NoExc
    /\ audio_data = None /\ transcription = None /\ fields = NoFields
    /\ token = None /\ created = NoPayload /\ printed = << >>
    /\ http = NoHttp /\ httpLog = << >> /\ sleeps = << >>
    /\ pages = << >> /\ pager = NoPager /\ records = << >>
    /\ args = NoArgs
    /\ speech = NoSpeech /\ llm = NoLlm /\ auth = NoAuth
    /\ workers = [w \in Workers |-> NoLocals]

Next ==
    \/ create_app
    \/ webhook_incoming
    \/ DownloadStage
    \/ TranscribeStage
    \/ transcribe_audio_call
    \/ ExtractStage
    \/ AuthStage
    \/ get_access_token_call
    \/ PostAttempt
    \/ test_pipeline_main
    \/ main
    \/ main_dispatch
    \/ GetAttempt

Spec == Init /\ [][Next]_vars

\* the server with several requests in progress
NextConcurrent ==
    \/ create_app
    \/ thread_webhook_incoming
    \/ thread_DownloadStage
    \/ thread_TranscribeStage

SpecConcurrent == Init /\ [][NextConcurrent]_vars

\* every HTTP attempt of the OData client completes: session.get and
\* session.post carry timeout=60
SpecFair == Spec /\ WF_vars(GetAttempt) /\ WF_vars(PostAttempt)

---------------------------------------------------------------------------
(* Properties of the webhook *)

WebhookDone == host = "webhook" /\ pc = "done"

\* the request carries the provider's signature of the public URL and the form
GenuineSignature(r) ==
    r.XTwilioSignature = Sign("twilio_auth_token", _build_original_url(r), r.form)

\* the request got past step 1 of webhook_incoming
Admitted == SKIP_VALIDATION \/ GenuineSignature(req)

TheReply == response.replies[1]

\* an external service answered the run with a failure
DownloadFailed == "download" \in { calls[i] : i \in DOMAIN calls } /\ audio_data = None

SpeechFailed == "speech" \in { calls[i] : i \in DOMAIN calls } /\ transcription = None

ExtractFailed == "llm" \in { calls[i] : i \in DOMAIN calls } /\ fields = NoFields

AuthFailed == "idp" \in { calls[i] : i \in DOMAIN calls } /\ token = None

CreateFailed ==
    \E i \in DOMAIN http.outcomes : http.method = "POST" /\ http.outcomes[i].status # 201

AnyServiceFailed ==
    DownloadFailed \/ SpeechFailed \/ ExtractFailed \/ AuthFailed \/ CreateFailed

\* C1: every admitted POST /webhook ends with exactly one TwiML response that
\* carries exactly one reply message, whatever each stage did; no reply exists
\* before the run ends, and no exception leaves webhook_incoming.
C1_ExactlyOneReply ==
    host = "webhook" /\ pc # "serving" /\ Admitted =>
        IF pc = "done"
        THEN response.status = 200 /\ Len(response.replies) = 1 /\ exc = NoExc
        ELSE response = NoResponse /\ exc = NoExc

\* a run that an unanticipated exception ended (the TypeError of step 4), answered
\* by the outer boundary
C1_Witness ==
    /\ WebhookDone /\ Admitted
    /\ failed = "transcribe"
    /\ response = _make_twiml_reply(GENERIC_APOLOGY)

FixedReplies ==
    { USAGE_INSTRUCTIONS, DOWNLOAD_FAILED, TRANSCRIPTION_FAILED, D365_FAILED,
      GENERIC_APOLOGY }

\* C2: a run that failed at one stage (the earlier ones having succeeded) is
\* answered with the reply designated for that stage: the download-failure text,
\* the transcription-failure text, the extractor's own message, or the D365
\* failure text; never the generic apology or the confirmation.
C2_StageAppropriateReply ==
    WebhookDone /\ Admitted /\ failed # "" =>
        /\ Len(response.replies) = 1
        /\ CASE failed = "download" -> TheReply = DOWNLOAD_FAILED
             [] failed = "transcribe" -> TheReply = TRANSCRIPTION_FAILED
             [] failed = "extract" ->
                    /\ TheReply \notin FixedReplies
                    /\ TheReply.text # Confirmation("", "", "").text
             [] OTHER -> TheReply = D365_FAILED

\* C3, as stated: a POST whose signature does not validate is answered 403 and
\* nothing of the pipeline runs for it.
C3_RejectedWheneverInvalid ==
    host = "webhook" /\ pc # "serving" /\ ~GenuineSignature(req) =>
        pc = "done" /\ response = Forbidden /\ calls = << >> /\ stages = << >>

\* C3, amended: with signature validation enabled (skip_validation false), a
\* POST whose signature does not validate is answered 403 and nothing of the
\* pipeline runs for it: no stage is entered and no external call is made.
C3_RejectedWhenValidating ==
    host = "webhook" /\ pc # "serving" /\ ~SKIP_VALIDATION /\ ~GenuineSignature(req) =>
        pc = "done" /\ response = Forbidden /\ calls = << >> /\ stages = << >>

\* a request behind the proxy signed for the local URL instead of the public one
C3_Witness ==
    /\ WebhookDone /\ ~SKIP_VALIDATION
    /\ req.XForwardedProto = "https" /\ req.XForwardedHost = "public.example"
    /\ req.XTwilioSignature = Sign("twilio_auth_token", LocalUrl(req), req.form)
    /\ req.form.NumMedia = "1"
    /\ response = Forbidden

\* NumMedia is absent or reads as an integer below 1
TextOnly(r) ==
    r.form.NumMedia \in { None, "0", "-1" }

\* C4: an admitted POST without media goes directly to Replied: the reply is the
\* usage instructions, and no download, transcription, extraction, token request
\* or create is made.
C4_TextOnlyGetsUsage ==
    host = "webhook" /\ pc # "serving" /\ Admitted /\ TextOnly(req) =>
        /\ pc = "done"
        /\ response = _make_twiml_reply(USAGE_INSTRUCTIONS)
        /\ calls = << >>
        /\ stages = << "Received", "Replied" >>

C4_Witness ==
    /\ WebhookDone /\ ~SKIP_VALIDATION /\ GenuineSignature(req)
    /\ req.form.NumMedia = "-1"
    /\ response = _make_twiml_reply(USAGE_INSTRUCTIONS)

PipelineStates ==
    << "Received", "MediaChecked", "Downloaded", "Transcribed", "Extracted",
       "Authenticated", "Created", "Replied" >>

\* C5: a run with media in which no external service fails passes Downloaded,
\* Transcribed, Extracted, Authenticated and Created in that order and ends with
\* the success confirmation that holds the account, the name and the group.
C5_SuccessPath ==
    WebhookDone /\ Admitted /\ Len(stages) >= 2 /\ stages[2] = "MediaChecked"
        /\ ~AnyServiceFailed =>
        /\ stages = PipelineStates
        /\ TheReply = Confirmation(get(created.CustomerAccount, fields.customer_account),
                                   get(created.OrganizationName, fields.organization_name),
                                   get(created.CustomerGroupId, fields.customer_group_id))
        /\ fields # NoFields

---------------------------------------------------------------------------
(* Properties of the OData client *)

BaseUrl == ErpUrl("/data/" \o ENTITY_NAME, 0)

\* the records of the first k pages, in server order
Served(k) == Flatten(SubSeq(pages, 1, k))

\* C6: when max_records is unset and only the last page lacks a continuation
\* link, get_all_records returns the concatenation of the pages' records in the
\* order served: nothing dropped, duplicated or reordered.
C6_Concatenation ==
    pager.stop /\ ~pager.max_records.given => records = Served(Len(pages))

\* two non-empty pages, the second one fetched at the third attempt
C6_Witness ==
    /\ pager.stop /\ ~pager.max_records.given
    /\ Len(pages) = 2 /\ Len(pages[1]) = 2 /\ Len(pages[2]) = 1
    /\ Len(http.outcomes) = 3
    /\ records = << 1, 2, 3 >>

\* the first page after which at least n records are accumulated
FirstReaching(n) ==
    CHOOSE k \in 1..Len(pages) :
        Len(Served(k)) >= n /\ \A j \in 1..(k - 1) : Len(Served(j)) < n

\* C7: with max_records = N >= 0, once the accumulated count is >= N after some
\* page, get_all_records fetches no further page and returns exactly the first N
\* records in server order, also when the last fetched page overshoots N.
C7_TruncatedToMax ==
    pager.stop /\ pager.max_records.given
        /\ Len(Served(Len(pages))) >= pager.max_records.value =>
        /\ Len(records) = pager.max_records.value
        /\ records = Take(Served(Len(pages)), pager.max_records.value)
        /\ http.page = FirstReaching(pager.max_records.value)

\* C8: only the requests of page 1 carry the constructed query parameters, at the
\* entity URL; every request of a later page, first attempt or retry, goes to the
\* continuation link the server returned with the page before it, verbatim and
\* with no query parameters.
C8_PageRequests ==
    \A i \in DOMAIN httpLog :
        LET q == httpLog[i]
        IN  q.method = "GET" =>
                IF q.page = 1
                THEN /\ q.url = BaseUrl
                     /\ q.params = QueryParams(CUSTOMER_FIELDS, args.cross_company)
                     /\ q.params # {}
                ELSE /\ q.url = ServerPage(ErpUrl(BaseUrl.path, q.page - 2)).nextLink
                     /\ q.params = {}

\* a retry of the request of page 2 in a cross-company query
C8_Witness ==
    /\ args.cross_company
    /\ \E i \in DOMAIN httpLog :
        httpLog[i].method = "GET" /\ httpLog[i].page = 2 /\ httpLog[i].attempt = 2

\* every attempt of the call was answered with 429 or a 5xx status
AllThrottled(c) ==
    /\ c.outcomes # << >>
    /\ \A i \in DOMAIN c.outcomes :
        c.outcomes[i].status = 429 \/ c.outcomes[i].status >= 500

RetriesExhausted == SystemExit("Failed after retries.", << MAX_RETRIES >>)

\* C9: a GET or POST whose every attempt is answered with 429 or 5xx makes
\* exactly 3 attempts and then surfaces the retries-exhausted error; no call ever
\* makes a 4th attempt, and such a call returns no result.
C9_ThreeAttemptsThenExhausted ==
    /\ Len(httpLog) <= MAX_RETRIES
    /\ AllThrottled(http) =>
        IF http.state = "retry"
        THEN Len(httpLog) < MAX_RETRIES
        ELSE /\ Len(httpLog) = MAX_RETRIES /\ Len(http.outcomes) = MAX_RETRIES
             /\ http.state = "raise"
             /\ host # "webhook" => exc = RetriesExhausted
             /\ records = << >> /\ created = NoPayload

\* the fetch of page 2 answered 429, 503, 429
C9_Witness ==
    /\ http.page = 2 /\ http.state = "raise"
    /\ http.outcomes = << HttpResp(429), HttpResp(503), HttpResp(429) >>
    /\ exc = RetriesExhausted

AuthenticationError ==
    SystemExit("Authentication error. Check credentials and token.", << >>)

\* C10: a 401 on any attempt of a GET or POST is the last attempt of the call: no
\* further request, no backoff sleep for it, and the call ends with the
\* authentication error.
C10_UnauthorizedAborts ==
    \A i \in DOMAIN http.outcomes :
        http.outcomes[i].status = 401 =>
            /\ i = Len(http.outcomes)
            /\ Len(httpLog) = i
            /\ Len(sleeps) = i - 1
            /\ http.state = "raise"
            /\ pc = "done"
            /\ host # "webhook" => exc = AuthenticationError

\* a 401 at the third attempt, after a timeout and a 429
C10_Witness ==
    /\ http.outcomes = << HttpFail("Timeout"), HttpResp(429), HttpResp(401) >>
    /\ http.method = "GET"
    /\ sleeps = << 2, 4 >>
    /\ exc = AuthenticationError

---------------------------------------------------------------------------
(* Properties of one _get_with_retry or _post_with_retry call *)

\* a client-error status other than 401 and 429
ClientError(o) ==
    o.raises = "" /\ o.status >= 400 /\ o.status < 500 /\ o.status \notin { 401, 429 }

\* raise SystemExit(f"API request failed with status {response.status_code}")
RequestError(status) == SystemExit("API request failed with status", << status >>)

\* C11: a response with a client-error status other than 401 and 429, on any
\* attempt of a GET or POST, ends the call at once: no further attempt, no sleep,
\* and the call raises the request error that carries the status code.
C11_ClientErrorAborts ==
    \A i \in DOMAIN http.outcomes :
        ClientError(http.outcomes[i]) =>
            /\ i = Len(http.outcomes)
            /\ Len(httpLog) = i
            /\ Len(sleeps) = i - 1
            /\ http.state = "raise"
            /\ http.raised = RequestError(http.outcomes[i].status)

ConnectError == SystemExit("Failed to connect after attempts.", << MAX_RETRIES >>)

TimeoutError == SystemExit("Request timed out after attempts.", << MAX_RETRIES >>)

\* C12: a connection failure or timeout at attempt k < 3 is followed by a sleep of
\* base^k seconds and attempt k + 1; at attempt 3 the call raises the transport
\* error at once, without a sleep and not as the retries-exhausted error.
C12_TransportFailure ==
    \A i \in DOMAIN http.outcomes :
        http.outcomes[i].raises # "" =>
            IF i < MAX_RETRIES
            THEN /\ Len(sleeps) >= i /\ sleeps[i] = RETRY_BACKOFF_BASE ^ i
                 /\ IF i = Len(http.outcomes)
                    THEN http.state = "retry" /\ http.attempt = i + 1
                    ELSE Len(httpLog) > i /\ httpLog[i + 1].attempt = i + 1
            ELSE /\ i = Len(http.outcomes)
                 /\ http.state = "raise"
                 /\ Len(sleeps) = i - 1
                 /\ http.raised = IF http.outcomes[i].raises = "ConnectionError"
                                  THEN ConnectError ELSE TimeoutError
                 /\ http.raised # RetriesExhausted

\* a POST whose three attempts all failed in transport
C12_Witness ==
    /\ http.method = "POST"
    /\ http.outcomes = << HttpFail("ConnectionError"), HttpFail("Timeout"),
                          HttpFail("Timeout") >>
    /\ sleeps = << 2, 4 >>
    /\ http.raised = TimeoutError

\* the status on which the call returns response.json()
IsSuccess(c, o) ==
    o.raises = "" /\ ((c.method = "GET" /\ o.status = 200) \/ (c.method = "POST" /\ o.status = 201))

\* the records get_all_records holds after the page of call c arrived
AccumulatedAfter(c) ==
    IF pager.max_records.given /\ pager.max_records.value # 0
       /\ Len(Served(c.page)) >= pager.max_records.value
    THEN Take(Served(c.page), pager.max_records.value)
    ELSE Served(c.page)

\* C13: as soon as an attempt of a GET or POST is answered with the success
\* status the call returns that response's body: it is the last attempt, no sleep
\* follows it, and nothing is raised for the failures of the attempts before it.
C13_SuccessReturnsAtOnce ==
    \A i \in DOMAIN http.outcomes :
        IsSuccess(http, http.outcomes[i]) =>
            /\ i = Len(http.outcomes)
            /\ Len(httpLog) = i
            /\ Len(sleeps) = i - 1
            /\ http.state = "return"
            /\ http.raised = NoExc /\ exc = NoExc
            /\ IF http.method = "POST"
               THEN created = http.outcomes[i].body.record
               ELSE pager.all_records = AccumulatedAfter(http)

\* a create that succeeded at the third attempt, after a 503 and a timeout
C13_Witness ==
    /\ http.method = "POST" /\ http.state = "return"
    /\ Len(http.outcomes) = MAX_RETRIES
    /\ http.outcomes[1] = HttpResp(503) /\ http.outcomes[2] = HttpFail("Timeout")
    /\ sleeps = << 2, 4 >>
    /\ created = http.payload

\* C14: the backoff sleep taken after attempt k is RETRY_BACKOFF_BASE^k seconds,
\* whatever the failures of the call were (429, 5xx, connection failure, timeout)
\* and in whatever order; the requests of every call are numbered from 1.
C14_BackoffByAttempt ==
    /\ \A i \in DOMAIN sleeps :
        /\ sleeps[i] = RETRY_BACKOFF_BASE ^ i
        /\ Transient(http.outcomes[i])
    /\ \A i \in DOMAIN httpLog : httpLog[i].attempt = i

\* the call for page 2, after the call for page 1 returned: a connection failure,
\* a 429 and a 503 gave sleeps of 2, 4 and 8 seconds
C14_Witness ==
    /\ http.page = 2
    /\ http.outcomes = << HttpFail("ConnectionError"), HttpResp(429), HttpResp(503) >>
    /\ sleeps = << 2, 4, 8 >>

\* C15: one _get_with_retry call (one page) or one _post_with_retry call puts at
\* most 3 requests on the wire, however 429, 5xx, connection failures and timeouts
\* interleave: the attempts are counted together, not per kind of failure.
C15_AtMostThreeRequests ==
    /\ Len(http.outcomes) <= MAX_RETRIES
    /\ Len(httpLog) = Len(http.outcomes)
    /\ \A i \in DOMAIN httpLog :
        /\ httpLog[i].method = http.method /\ httpLog[i].url = http.url
        /\ httpLog[i].page = http.page
    /\ Len(http.outcomes) = MAX_RETRIES => http.state # "retry"

\* a 429, a connection failure and a timeout in one call
C15_Witness ==
    /\ http.outcomes = << HttpResp(429), HttpFail("ConnectionError"), HttpFail("Timeout") >>
    /\ Len(httpLog) = MAX_RETRIES
    /\ http.state = "raise"

---------------------------------------------------------------------------
(* Properties of create_customer *)

\* the body of the response that ended the latest call
LastBody == http.outcomes[Len(http.outcomes)].body

\* C16: on a creation status post_record and create_customer return the body of
\* the server's response as the created record, not the submitted payload; the
\* local pipeline test prints the server's values.
C16_CreatedIsServerRecord ==
    http.method = "POST" /\ http.state = "return" =>
        /\ created = LastBody.record
        /\ host = "test_pipeline" =>
            printed[Len(printed) - 1] =
                Msg("Created:", << get(LastBody.record.CustomerAccount, "?"),
                                   get(LastBody.record.OrganizationName, "?"),
                                   get(LastBody.record.CustomerGroupId, "?") >>)

\* the server answered the create with an account it normalized
C16_Witness ==
    /\ host = "test_pipeline"
    /\ http.method = "POST" /\ http.state = "return"
    /\ http.payload.CustomerAccount = "AKTEST"
    /\ created.CustomerAccount = "AK005-SRV"

---------------------------------------------------------------------------
(* Properties of extract_customer_fields *)

\* the completion's JSON object gives no value for a field: the key is absent,
\* its value is null, or its value is empty or blank text
Lacks(v) == v = None \/ v = JNull \/ strip(v) = ""

\* the names of the fields the completion's object lacks, in the order of the code
MissingFields(o) ==
    (IF Lacks(o.CustomerAccount) THEN << "CustomerAccount" >> ELSE << >>)
    \o (IF Lacks(o.OrganizationName) THEN << "OrganizationName" >> ELSE << >>)
    \o (IF Lacks(o.CustomerGroupId) THEN << "CustomerGroupId" >> ELSE << >>)

\* the completion is a JSON object without an "error" member
FieldsObject(o) == o.raises = "" /\ o.kind = "object" /\ o.error = None

MissingFieldsError(names) ==
    ParseError("Could not extract: . Please state your customer account ID, organization name, and customer group number.", names)

\* C17: extract_customer_fields is all-or-nothing: the CustomerFields it returns
\* have account, name and group all non-empty, and when the extraction lacks one
\* or more of the three it returns no fields but raises the error that names
\* exactly the fields that are missing.
C17_AllOrNothing ==
    llm # NoLlm =>
        LET r == extract_customer_fields(llm)
        IN  /\ r.exc = NoExc =>
                /\ fields = r.value
                /\ fields.customer_account \notin { None, "" }
                /\ fields.organization_name \notin { None, "" }
                /\ fields.customer_group_id \notin { None, "" }
            /\ FieldsObject(llm) /\ MissingFields(llm) # << >> =>
                /\ r.exc = MissingFieldsError(MissingFields(llm))
                /\ fields = NoFields

\* C18: extract_customer_fields ends with ParseError, and with no other kind of
\* error, whenever the model call fails with an API error, the reply is anything
\* other than a JSON object holding the three fields, or the reply carries an
\* "error" member.
C18_OnlyParseError ==
    llm # NoLlm /\ (~FieldsObject(llm) \/ MissingFields(llm) # << >>) =>
        /\ extract_customer_fields(llm).exc.type = "ParseError"
        /\ fields = NoFields
        /\ host = "test_pipeline" => exc = NoExc /\ pc = "done"

---------------------------------------------------------------------------
(* Properties of transcribe_audio *)

\* transcribe_audio was called with the arguments it declares
DirectCall == host = "speech_to_text"

\* the requests the current unit of work sent to the speech service
SpeechRequests == { i \in DOMAIN calls : calls[i] = "speech" }

\* C19: transcribe_audio returns only non-empty text: for a non-success HTTP
\* status, a recognition status other than Success, or empty text on an HTTP
\* success, it raises TranscriptionError and returns no value.
C19_TextOrTranscriptionError ==
    DirectCall /\ pc = "done" =>
        /\ transcription # None =>
            /\ exc = NoExc
            /\ transcription \notin { "", " ", "  " }
            /\ speech.status = 200 /\ speech.RecognitionStatus = "Success"
            /\ transcription = strip(speech.DisplayText)
        /\ (speech.raises # "" \/ speech.status # 200
             \/ speech.RecognitionStatus # "Success"
             \/ speech.DisplayText \in { None, "", " ", "  " }) =>
            /\ exc.type = "TranscriptionError"
            /\ transcription = None

\* the service answered 200 and Success with a display text of blanks only
C19_Witness ==
    /\ DirectCall /\ pc = "done"
    /\ speech = Speech("", 200, "Success", "  ")
    /\ exc = TranscriptionError("Transcription returned empty text.", << >>)

\* C20: transcribe_audio sends exactly one HTTP request per call and never sends
\* it again, whatever the outcome of that request.
C20_OneSpeechRequest ==
    DirectCall =>
        /\ Cardinality(SpeechRequests) <= 1
        /\ pc = "done" => Cardinality(SpeechRequests) = 1 /\ speech # NoSpeech
        /\ pc = "transcribe" => calls = << >>

\* the request failed in transport and the call ended without a second request
C20_Witness ==
    /\ DirectCall /\ pc = "done"
    /\ speech.raises = "RequestException"
    /\ calls = << "speech" >>
    /\ exc.type = "TranscriptionError"

---------------------------------------------------------------------------
(* Properties of the token provider *)

\* the identity provider issued a token
Issued(o) == o.raises = "" /\ o.access_token # None

\* C21: get_access_token first looks the token up in the application's cache and
\* makes the client-credentials request only when the lookup found no valid
\* token; whenever the lookup or the request yields a token, that token is what
\* it returns.
C21_SilentThenRequest ==
    auth.called =>
        /\ auth.requested <=> auth.silent = NoResult
        /\ ~auth.requested => auth.answer = NoResult
        /\ auth.silent # NoResult =>
            /\ token = auth.silent.access_token
            /\ token # None
        /\ (auth.requested /\ Issued(auth.answer)) =>
            /\ token = auth.answer.access_token
            /\ token # None
        /\ host = "auth" => exc = NoExc \/ token = None

\* the second call on an authenticator found the token of the first in the
\* cache and returned it without a request
C21_Witness ==
    /\ host = "auth" /\ pc = "done"
    /\ stages = << "Authenticated", "Authenticated" >>
    /\ calls = << "idp" >>
    /\ ~auth.requested
    /\ auth.silent = IdpResult("token-1", None, None, "")
    /\ token = "token-1"

\* the latest get_access_token made the token request and got no token
TokenRequestFailed == auth.called /\ auth.requested /\ ~Issued(auth.answer)

\* token requests the authenticator made, all calls together
TokenRequests == SelectSeq(calls, LAMBDA c : c = "idp")

\* C22: when the token request fails, get_access_token raises an authentication
\* failure that carries the identity provider's error and error_description; it
\* returns no token and makes no second token request.
C22_FailureCarriesError ==
    (host = "auth" /\ TokenRequestFailed) =>
        /\ pc = "done" /\ failed = "auth"
        /\ token = None
        /\ Len(TokenRequests) <= Len(stages) + 1
        /\ exc # NoExc
        /\ exc.msg.args = << auth.answer.error, auth.answer.error_description >>

\* position of the first call of a kind among the external calls of the run
FirstCall(kind) ==
    IF \E i \in 1..Len(calls) : calls[i] = kind
    THEN CHOOSE i \in 1..Len(calls) : calls[i] = kind /\ \A j \in 1..(i-1) : calls[j] # kind
    ELSE 0

\* the create requests the run has put on the wire
CreateRequests == { i \in 1..Len(httpLog) : httpLog[i].method = "POST" }

---------------------------------------------------------------------------
(* Properties of the orchestrator's steps 5 to 7, taken on the outcomes the
   services gave the run at hand *)

\* what step 5 of _process_voice_message does with the extractor's outcome
Step5(o) == webhook_step5(extract_customer_fields(o))

\* the messages extract_customer_fields words itself for the sender: the fields
\* it misses, a completion that is no JSON, the model's own "error" text
IsExtractorMessage(m, o) ==
    \/ /\ m.text = MissingFieldsError(<< >>).msg.text
       /\ m.args # << >>
       /\ \A i \in DOMAIN m.args :
            m.args[i] \in { "CustomerAccount", "OrganizationName", "CustomerGroupId" }
    \/ m = Msg("Could not parse the response. Please try again with a clearer message.", << >>)
    \/ o.error # None /\ m = Msg(o.error, << >>)

\* C25: a failure reply is one of the fixed texts or the extractor's message
\* about the fields it misses; no reply holds detail of the exception a failed
\* external call raised.
C25_NoExceptionDetailInReply ==
    /\ (WebhookDone /\ failed # "" /\ response.status = 200) =>
            TheReply \in FixedReplies
    /\ llm # NoLlm =>
        LET k == Step5(llm)
        IN  k.response # NoResponse =>
                /\ \/ k.response.replies[1] \in FixedReplies
                   \/ IsExtractorMessage(k.response.replies[1], llm)
                /\ \A i \in DOMAIN k.response.replies[1].args :
                        k.response.replies[1].args[i] # llm.raises

\* what step 6 of _process_voice_message does with the token provider's outcome
Step6Auth == webhook_step6_auth(get_access_token(auth.silent, auth.answer))

\* what step 6 does when create_customer ended with the exception of the
\* latest _post_with_retry call
Step6Create == webhook_step6_create(Step("raise", 0, http.raised), created, fields)

\* the step ended the request with the D365 failure reply and no exception
RepliedD365Failed(k) ==
    /\ k.pc = "done"
    /\ k.response = _make_twiml_reply(D365_FAILED)
    /\ k.exc = NoExc

\* C26: an unrecoverable error of the token provider or of the API client,
\* SystemExit included, does not leave webhook_incoming and does not end the
\* serving process: it reaches step 6 of the orchestrator, which answers it with
\* a reply.
C26_ErpErrorsBecomeReplies ==
    /\ host = "webhook" => exc = NoExc
    /\ (auth.called /\ token = None) =>
        /\ get_access_token(auth.silent, auth.answer).exc # NoExc
        /\ RepliedD365Failed(Step6Auth)
    /\ (http.method = "POST" /\ http.raised # NoExc) =>
        RepliedD365Failed(Step6Create)

\* the identity provider refused the client and get_access_token called
\* sys.exit(1); step 6 turns that SystemExit into the D365 failure reply
C26_Witness ==
    /\ TokenRequestFailed
    /\ auth.answer.error = "invalid_client"
    /\ exc = SystemExit("1", << >>)
    /\ get_access_token(auth.silent, auth.answer).exc = exc
    /\ RepliedD365Failed(Step6Auth)

---------------------------------------------------------------------------
(* Properties of a pipeline run: a webhook request or the local pipeline test *)

PipelineRun == host \in { "webhook", "test_pipeline" }

\* the external calls of the pipeline, in the order of its stages
PipelineCalls == << "download", "speech", "llm", "idp", "erp" >>

Rank(c) == CHOOSE i \in DOMAIN PipelineCalls : PipelineCalls[i] = c

Called(c) == \E i \in DOMAIN calls : calls[i] = c

AllThreeFields ==
    /\ fields.customer_account \notin { None, "" }
    /\ fields.organization_name \notin { None, "" }
    /\ fields.customer_group_id \notin { None, "" }

\* C27: in a pipeline run the external calls are made in the order download,
\* transcribe, extract, authenticate, create, each at most once; a stage is
\* entered only when every earlier stage of the run succeeded, and the create is
\* sent only after the extraction returned all three fields and the token
\* provider returned a token.
C27_StagesInOrder ==
    PipelineRun =>
        /\ \A i, j \in DOMAIN calls : i < j => Rank(calls[i]) < Rank(calls[j])
        /\ (host = "webhook" /\ (pc = "transcribe" \/ Called("speech"))) =>
                Called("download") /\ audio_data # None
        /\ (host = "webhook" /\ (pc = "extract" \/ Called("llm"))) =>
                transcription # None
        /\ (pc = "auth" \/ Called("idp")) => Called("llm") /\ AllThreeFields
        /\ (pc = "post" \/ Called("erp")) =>
                /\ Called("idp") /\ token # None
                /\ AllThreeFields
        /\ CreateRequests # {} => Called("erp")

\* the local pipeline test went through extraction, authentication and create,
\* in that order, and the create was retried within its one call
C27_Witness ==
    /\ host = "test_pipeline" /\ pc = "done"
    /\ calls = << "llm", "idp", "erp" >>
    /\ Len(httpLog) > 1
    /\ AllThreeFields /\ token # None
    /\ stages = << "Extracted", "Authenticated", "Created" >>

\* a create of the run returned the server's record
CreateReturned ==
    /\ http.method = "POST" /\ http.state = "return"
    /\ Len(stages) > 0 /\ stages[Len(stages)] = "Created"

\* what step 7 of _process_voice_message answers for the record the create
\* returned and the fields the run extracted
Step7 == webhook_step6_create(Step("return", 0, NoExc), created, fields)

\* C28: in the confirmation each of account, name and group is the value of the
\* server's record when the record has it, and the extracted value when the
\* record omits it.
C28_ConfirmationPrefersServer ==
    CreateReturned =>
        LET reply == Step7.response.replies[1]
            account == IF created.CustomerAccount # None
                       THEN created.CustomerAccount ELSE fields.customer_account
            name == IF created.OrganizationName # None
                    THEN created.OrganizationName ELSE fields.organization_name
            group == IF created.CustomerGroupId # None
                     THEN created.CustomerGroupId ELSE fields.customer_group_id
        IN  /\ Step7.pc = "done" /\ Step7.failed = "" /\ Step7.response.status = 200
            /\ reply.text = "Customer created successfully in D365 F&O!"
            /\ reply.args = << account, name, group >>

\* the server's record has account and name but no group: the confirmation
\* shows the server's account and name and the extracted group
C28_Witness ==
    /\ CreateReturned /\ host = "test_pipeline"
    /\ created.CustomerAccount # None /\ created.CustomerGroupId = None
    /\ AllThreeFields
    /\ created.CustomerAccount # fields.customer_account
    /\ Step7.response.replies[1].args =
         << created.CustomerAccount, created.OrganizationName, fields.customer_group_id >>

\* C29: whenever the media cannot be fetched (a status other than success, a
\* connection failure or a timeout) the run ends failed at the download with the
\* download-failure reply, and the transcriber is not called.
C29_DownloadFailureReply ==
    (host = "webhook" /\ DownloadFailed) =>
        /\ pc = "done" /\ failed = "download"
        /\ response = _make_twiml_reply(DOWNLOAD_FAILED)
        /\ ~Called("speech") /\ speech = NoSpeech
        /\ transcription = None

\* C30: after a successful download the transcriber is called, and the run then
\* either has the transcript and goes on to the extraction, or ends failed at
\* the transcription with the transcription-failure reply; nothing else follows
\* a successful download.
C30_TranscribedOrTranscriptionFailed ==
    (host = "webhook" /\ audio_data # None) =>
        \/ pc = "transcribe" /\ ~Called("speech")
        \/ /\ Called("speech") /\ transcription # None
           /\ \E i \in DOMAIN stages : stages[i] = "Transcribed"
        \/ /\ pc = "done" /\ failed = "transcribe"
           /\ response = _make_twiml_reply(TRANSCRIPTION_FAILED)

---------------------------------------------------------------------------
(* Properties of concurrent webhook requests *)

\* the response the server gives request r, served alone, when the media fetch
\* answers d
SoloResponse(r, skip, d) ==
    LET k1 == webhook_incoming_first(r, skip)
        k3 == webhook_step3(_download_audio(d))
        k4 == webhook_step4(call_transcribe_audio(webhook_transcribe_args, NoSpeech))
    IN  IF k1.pc = "done" THEN k1.response
        ELSE IF k3.pc = "done" THEN k3.response
        ELSE k4.response

---------------------------------------------------------------------------
(* Properties of the signature validation *)

\* a header that was sent, whatever its value
Sent(h) == h # None

\* the URL the claim names, for a given reading of "the header is present"
UrlFor(r, proto_present, xhost_present, host_present) ==
    IF proto_present /\ (xhost_present \/ host_present)
    THEN Url(r.XForwardedProto, IF xhost_present THEN r.XForwardedHost ELSE r.Host, Path)
    ELSE LocalUrl(r)

\* the server validated the signature of the request it received
Validated == host = "webhook" /\ pc # "serving" /\ ~SKIP_VALIDATION

\* C31, as stated: the signature is validated against
\* {X-Forwarded-Proto}://{X-Forwarded-Host, else Host}{path} whenever
\* X-Forwarded-Proto and a host header are present in the request, against the
\* request's own URL otherwise, together with the form fields.
C31_UrlWhenHeadersPresent ==
    Validated =>
        (response # Forbidden <=>
            req.XTwilioSignature =
                Sign("twilio_auth_token",
                     UrlFor(req, Sent(req.XForwardedProto), Sent(req.XForwardedHost),
                            Sent(req.Host)),
                     req.form))

\* C31, amended: the signature is validated against
\* {X-Forwarded-Proto}://{X-Forwarded-Host, else Host}{path} whenever
\* X-Forwarded-Proto and a host header are present with a non-empty value (an
\* empty X-Forwarded-Host counts as absent and Host is taken), against the
\* request's own URL otherwise, together with the form fields.
C31_UrlWhenHeadersNonEmpty ==
    Validated =>
        (response # Forbidden <=>
            req.XTwilioSignature =
                Sign("twilio_auth_token",
                     UrlFor(req, Truthy(req.XForwardedProto), Truthy(req.XForwardedHost),
                            Truthy(req.Host)),
                     req.form))

\* a request with X-Forwarded-Proto and Host but no X-Forwarded-Host, signed for
\* https://<Host>/webhook, was admitted
C31_Witness ==
    /\ Validated /\ response # Forbidden
    /\ req.XForwardedProto = "https" /\ req.XForwardedHost = None
    /\ req.Host = "localhost"
    /\ req.XTwilioSignature = Sign("twilio_auth_token", Url("https", "localhost", Path),
                                   req.form)

---------------------------------------------------------------------------
(* Properties of the retry budget within get_all_records *)

\* a page fetch of get_all_records is in progress or has just ended
PageFetch == host = "cli" /\ http.method = "GET"

RECURSIVE Sum(_)
Sum(seq) == IF seq = << >> THEN 0 ELSE Head(seq) + Sum(Tail(seq))

\* C32: within one get_all_records call the fetch of each page has its own 3
\* attempts, numbered from 1 (first backoff RETRY_BACKOFF_BASE seconds),
\* however many attempts the pages before it took: no attempt count is carried
\* from page to page.
C32_BudgetPerPage ==
    PageFetch =>
        /\ Len(pager.fetched) \in { http.page - 1, http.page }
        /\ \A k \in DOMAIN pager.fetched : pager.fetched[k] \in 1..MAX_RETRIES
        /\ \A i \in DOMAIN httpLog :
            httpLog[i].attempt = i /\ httpLog[i].page = http.page
        /\ Len(http.outcomes) <= MAX_RETRIES
        /\ (http.state = "retry") => Len(http.outcomes) < MAX_RETRIES
        /\ sleeps # << >> => sleeps[1] = RETRY_BACKOFF_BASE

\* page 1 arrived on its 3rd attempt, and the fetch of page 2 then made 3
\* attempts of its own, the first backoff being 2 s again
C32_Witness ==
    /\ PageFetch /\ http.page = 2
    /\ pager.fetched = << MAX_RETRIES >>
    /\ Len(httpLog) = MAX_RETRIES
    /\ sleeps[1] = 2
    /\ Sum(pager.fetched) + Len(httpLog) > MAX_RETRIES

\* C33: every backoff sleep of a call is followed by a further attempt of the
\* same request: after its final (3rd) attempt the client does not sleep before
\* it surfaces the error, for 429 and 5xx responses as for connection failures
\* and timeouts.
C33_SleepThenAttempt ==
    (http.method # "" /\ http.state # "retry") =>
        /\ Len(sleeps) < Len(httpLog)
        /\ Len(httpLog) = MAX_RETRIES => Len(sleeps) = MAX_RETRIES - 1

---------------------------------------------------------------------------
(* Termination of the OData client *)

\* attempts of the call in progress that were answered
AttemptsMade(method) ==
    IF http.method = method /\ http.state = "retry" THEN Len(http.outcomes) ELSE 0

\* an upper bound on the HTTP attempts the client may still make: 3 for every
\* page of the chain not yet fetched, 3 for a POST, less those of the call in
\* progress
AttemptsLeft ==
    CASE pc = "get" -> MAX_RETRIES * (Len(pages) - Len(pager.fetched)) - AttemptsMade("GET")
      [] pc = "post" -> MAX_RETRIES - AttemptsMade("POST")
      [] OTHER -> 0

\* the client is inside get_all_records or post_record
InClient == pc \in { "get", "post" }

\* C34: get_all_records ends (it returns or an error leaves it) whenever every
\* HTTP attempt completes and the chain of continuation links is finite, with
\* or without max_records, and so does post_record; every attempt uses up one of
\* the at most 3 attempts of its page fetch or POST.
C34_ClientTerminates ==
    /\ [][InClient => (AttemptsLeft' < AttemptsLeft /\ AttemptsLeft' >= 0)]_vars
    /\ InClient ~> (pc = "done")

\* a retrieval of two pages without --max returned after retries on both pages
C34_Witness ==
    /\ host = "cli" /\ pc = "done" /\ exc = NoExc
    /\ ~pager.max_records.given /\ pager.stop
    /\ Len(pages) = 2
    /\ pager.fetched = << 2, MAX_RETRIES >>

---------------------------------------------------------------------------
(* Properties of a failed retrieval *)

\* the fetch of a page ended with an error
PageFailed == PageFetch /\ http.state = "raise"

\* C35: when the fetch of any page, the first or a later one, ends with an
\* error, get_all_records ends with that error and returns nothing: the records
\* of the pages fetched before are not handed to the caller.
C35_NoPartialResult ==
    PageFailed =>
        /\ pc = "done"
        /\ http.raised # NoExc /\ exc = http.raised
        /\ records = << >>
        /\ \A i \in DOMAIN printed : printed[i].text # "display_customers"

\* page 1 was fetched and held records; the fetch of page 2 was refused
C35_Witness ==
    /\ PageFailed /\ http.page = 2
    /\ pager.all_records # << >>
    /\ http.outcomes[Len(http.outcomes)].status = 400
    /\ records = << >>
    /\ exc = RequestError(400)

---------------------------------------------------------------------------
(* Properties of an accepted create *)

\* a POST of the run ended, by return or by an exception
CreateEnded == http.method = "POST" /\ http.state \in { "return", "raise" }

\* an attempt of the POST was answered with the creation status
Accepted == \E i \in DOMAIN http.outcomes : http.outcomes[i].status = 201

\* what steps 6 and 7 of _process_voice_message answer for the way the
\* create_customer of the run ended
Step6Ended == webhook_step6_create(Step(http.state, 0, http.raised), created, fields)

IsConfirmation(r) ==
    /\ r.status = 200 /\ Len(r.replies) = 1
    /\ r.replies[1].text = Confirmation("", "", "").text

\* C36: a run whose POST was answered with the creation status on some attempt
\* ends with the success confirmation; a run that ends with the D365 failure
\* reply or the generic apology after its POST has created no customer record.
C36_AcceptedMeansConfirmed ==
    CreateEnded =>
        /\ Accepted =>
            /\ http.state = "return" /\ http.raised = NoExc
            /\ http.outcomes[Len(http.outcomes)].status = 201
            /\ created = LastBody.record
            /\ IsConfirmation(Step6Ended.response)
            /\ Step6Ended.failed = "" /\ Step6Ended.exc = NoExc
            /\ host = "test_pipeline" =>
                 /\ exc = NoExc /\ failed = ""
                 /\ printed[Len(printed)] = Msg("RESULT: PASS", << >>)
        /\ ~IsConfirmation(Step6Ended.response) =>
            /\ ~Accepted
            /\ created = NoPayload
            /\ Step6Ended.response = _make_twiml_reply(D365_FAILED)

\* the create was throttled once and accepted on its 2nd attempt
C36_Witness ==
    /\ CreateEnded /\ host = "test_pipeline"
    /\ http.outcomes[1].status = 429
    /\ Len(http.outcomes) = 2 /\ http.outcomes[2].status = 201
    /\ IsConfirmation(Step6Ended.response)
    /\ created # NoPayload

=============================================================================
